---- MODULE Spec2Model ----
(***************************************************************************)
(* State-machine model of SchematicImportDialog                            *)
(* (src/ui/dialog/import_dialog.cpp).                                      *)
(*                                                                         *)
(* The constructor is modelled statement by statement (one action per      *)
(* source line that changes state); the two button handlers are modelled   *)
(* as a call step (the toolkit dispatches the click to the handler bound   *)
(* with Bind) and a return step (the handler body runs and returns).       *)
(* Everything runs on one thread: while a constructor or a handler is      *)
(* running nothing else is scheduled.                                      *)
(***************************************************************************)
EXTENDS Integers, Sequences, FiniteSets

\* ----------------------------------------------------------------- bounds
MaxDialogs == 2      \* dialog objects constructed in one behaviour
MaxClicks  == 3      \* button clicks issued in one behaviour

Dialogs  == 1..MaxDialogs
Buttons  == {"m_vectorizeBtn", "m_zoomBtn"}
Handlers == {"OnVectorize", "OnZoom"}

\* ------------------------------------------------------------------ state
VARIABLES
    dlg,        \* dlg[d]: fields of dialog object d
    widgets,    \* live child window objects created by the constructors
    clicks,     \* clicks[d][b]: clicks issued on button b of dialog d
    calls,      \* calls[d][h]: invocations of handler h of dialog d
    stack,      \* handler frames currently executing, innermost last
    issued,     \* clicks in the order they were issued
    completed,  \* clicks in the order their handler returned
    exc         \* handler invocations that ended in an exception

vars == <<dlg, widgets, clicks, calls, stack, issued, completed, exc>>

\* ----------------------------------------------------- program constants
DialogTitle == "Import Schematic"
DialogStyle == {"wxDEFAULT_DIALOG_STYLE", "wxRESIZE_BORDER"}
ScrollRateArg == <<5, 5>>
MinSizeArgSwapped == <<600, 800>>

\* the argument of SetMinSize
MinSizeArg == <<800, 600>>
DefaultSize == <<-1, -1>>

ButtonLabel(b) == IF b = "m_vectorizeBtn" THEN "Vectorize" ELSE "Zoom"

WidgetParentNullScrolled(n) ==
    CASE n = "m_scrolledWindow" -> "null"
      [] n = "toolbar"          -> "this"
      [] n = "m_vectorizeBtn"   -> "toolbar"
      [] n = "m_zoomBtn"        -> "toolbar"
      [] n = "m_statusBar"      -> "this"

\* the parent each child window is created with
WidgetParent(n) ==
    CASE n = "m_scrolledWindow" -> "this"
      [] n = "toolbar"          -> "this"
      [] n = "m_vectorizeBtn"   -> "toolbar"
      [] n = "m_zoomBtn"        -> "toolbar"
      [] n = "m_statusBar"      -> "this"

WidgetLabel(n) == IF n \in Buttons THEN ButtonLabel(n) ELSE ""

NewWidget(d, n) ==
    [owner |-> d, name |-> n, parent |-> WidgetParent(n), label |-> WidgetLabel(n)]

BindTargetSwapped(b) == IF b = "m_vectorizeBtn" THEN "OnZoom" ELSE "OnVectorize"

\* the handler each button is bound to
BindTarget(b) == IF b = "m_vectorizeBtn" THEN "OnVectorize" ELSE "OnZoom"

AddControlFront(tb, b) == <<b>> \o tb

\* wxToolBar::AddControl appends the control to the toolbar
AddControl(tb, b) == Append(tb, b)

\* ------------------------------------------------------------- the object
Unborn ==
    [life        |-> "unborn",
     pc          |-> "none",
     title       |-> "",
     style       |-> {},
     hasParent   |-> FALSE,
     scrollRate  |-> <<0, 0>>,
     toolbar     |-> <<>>,
     realized    |-> FALSE,
     statusText  |-> "",
     bind        |-> [b \in Buttons |-> <<>>],
     mainSizer   |-> [alive |-> FALSE, orient |-> "", items |-> <<>>],
     sizer       |-> "null",
     minSize     |-> DefaultSize,
     visible     |-> FALSE]

Live(d, n) == \E w \in widgets : w.owner = d /\ w.name = n

CtorRunning == \E d \in Dialogs : dlg[d].life = "ctor"

Init ==
    /\ dlg = [d \in Dialogs |-> Unborn]
    /\ widgets = {}
    /\ clicks = [d \in Dialogs |-> [b \in Buttons |-> 0]]
    /\ calls = [d \in Dialogs |-> [h \in Handlers |-> 0]]
    /\ stack = <<>>
    /\ issued = <<>>
    /\ completed = <<>>
    /\ exc = 0

Rest == <<clicks, calls, stack, issued, completed, exc>>

\* ------------------------------------------------------------ constructor
\* wxDialog(parent, wxID_ANY, "Import Schematic", ..., style)
Construct(d) ==
    /\ dlg[d].life = "unborn"
    /\ \A e \in Dialogs : e < d => dlg[e].life # "unborn"
    /\ ~CtorRunning /\ stack = <<>>
    /\ dlg' = [dlg EXCEPT ![d].life = "ctor", ![d].pc = "L19",
                          ![d].title = DialogTitle, ![d].style = DialogStyle,
                          ![d].hasParent = TRUE]
    /\ UNCHANGED <<widgets, Rest>>

At(d, l) == dlg[d].life = "ctor" /\ dlg[d].pc = l

\* wxBoxSizer* mainSizer = new wxBoxSizer(wxVERTICAL);
NewMainSizer(d) ==
    /\ At(d, "L19")
    /\ dlg' = [dlg EXCEPT ![d].pc = "L20",
                 ![d].mainSizer = [alive |-> TRUE, orient |-> "wxVERTICAL", items |-> <<>>]]
    /\ UNCHANGED <<widgets, Rest>>

\* m_scrolledWindow = new wxScrolledWindow(this);
NewScrolledWindow(d) ==
    /\ At(d, "L20")
    /\ widgets' = widgets \cup {NewWidget(d, "m_scrolledWindow")}
    /\ dlg' = [dlg EXCEPT ![d].pc = "L21"]
    /\ UNCHANGED Rest

\* m_scrolledWindow->SetScrollRate(5, 5);
SetScrollRate(d) ==
    /\ At(d, "L21")
    /\ dlg' = [dlg EXCEPT ![d].pc = "L24", ![d].scrollRate = ScrollRateArg]
    /\ UNCHANGED <<widgets, Rest>>

\* wxToolBar* toolbar = CreateToolBar();
CreateToolBar(d) ==
    /\ At(d, "L24")
    /\ widgets' = widgets \cup {NewWidget(d, "toolbar")}
    /\ dlg' = [dlg EXCEPT ![d].pc = "L25"]
    /\ UNCHANGED Rest

\* m_vectorizeBtn = new wxButton(toolbar, wxID_ANY, "Vectorize");
NewVectorizeBtn(d) ==
    /\ At(d, "L25")
    /\ widgets' = widgets \cup {NewWidget(d, "m_vectorizeBtn")}
    /\ dlg' = [dlg EXCEPT ![d].pc = "L26"]
    /\ UNCHANGED Rest

\* m_zoomBtn = new wxButton(toolbar, wxID_ANY, "Zoom");
NewZoomBtn(d) ==
    /\ At(d, "L26")
    /\ widgets' = widgets \cup {NewWidget(d, "m_zoomBtn")}
    /\ dlg' = [dlg EXCEPT ![d].pc = "L27"]
    /\ UNCHANGED Rest

\* toolbar->AddControl(m_vectorizeBtn);
AddVectorizeBtn(d) ==
    /\ At(d, "L27")
    /\ dlg' = [dlg EXCEPT ![d].pc = "L28",
                          ![d].toolbar = AddControl(@, "m_vectorizeBtn")]
    /\ UNCHANGED <<widgets, Rest>>

\* toolbar->AddControl(m_zoomBtn);
AddZoomBtn(d) ==
    /\ At(d, "L28")
    /\ dlg' = [dlg EXCEPT ![d].pc = "L29",
                          ![d].toolbar = AddControl(@, "m_zoomBtn")]
    /\ UNCHANGED <<widgets, Rest>>

\* toolbar->Realize();
Realize(d) ==
    /\ At(d, "L29")
    /\ dlg' = [dlg EXCEPT ![d].pc = "L32", ![d].realized = TRUE]
    /\ UNCHANGED <<widgets, Rest>>

\* m_statusBar = CreateStatusBar();
CreateStatusBar(d) ==
    /\ At(d, "L32")
    /\ widgets' = widgets \cup {NewWidget(d, "m_statusBar")}
    /\ dlg' = [dlg EXCEPT ![d].pc = "L35"]
    /\ UNCHANGED Rest

\* m_vectorizeBtn->Bind(wxEVT_BUTTON, &SchematicImportDialog::OnVectorize, this);
BindVectorize(d) ==
    /\ At(d, "L35")
    /\ dlg' = [dlg EXCEPT ![d].pc = "L36",
          ![d].bind["m_vectorizeBtn"] = Append(@, BindTarget("m_vectorizeBtn"))]
    /\ UNCHANGED <<widgets, Rest>>

\* m_zoomBtn->Bind(wxEVT_BUTTON, &SchematicImportDialog::OnZoom, this);
BindZoom(d) ==
    /\ At(d, "L36")
    /\ dlg' = [dlg EXCEPT ![d].pc = "L38",
          ![d].bind["m_zoomBtn"] = Append(@, BindTarget("m_zoomBtn"))]
    /\ UNCHANGED <<widgets, Rest>>

SetSizerSkipped(s) == s

\* SetSizer(mainSizer): the window installs (and from now on owns) the sizer
SetSizerCall(s) == [s EXCEPT !.sizer = "mainSizer"]

SetSizer(d) ==
    /\ At(d, "L38")
    /\ dlg' = [dlg EXCEPT ![d] = [SetSizerCall(@) EXCEPT !.pc = "L39"]]
    /\ UNCHANGED <<widgets, Rest>>

\* SetMinSize(wxSize(800, 600)); and the constructor returns
SetMinSize(d) ==
    /\ At(d, "L39")
    /\ dlg' = [dlg EXCEPT ![d].pc = "done", ![d].life = "open",
                          ![d].minSize = MinSizeArg]
    /\ UNCHANGED <<widgets, Rest>>

\* ------------------------------------------------------------ environment
\* Show()/ShowModal() inherited from wxDialog: the caller can reach the
\* object only after its constructor has returned.
Show(d) ==
    /\ dlg[d].life = "open"
    /\ ~dlg[d].visible
    /\ ~CtorRunning /\ stack = <<>>
    /\ dlg' = [dlg EXCEPT ![d].visible = TRUE]
    /\ UNCHANGED <<widgets, Rest>>

HandlerYieldsInZoom(h) == h = "OnZoom"

\* does the body of h re-enter the event loop (wxYield, a nested modal loop)?
HandlerYields(h) == FALSE

\* does the body of h leave by an exception?
HandlerThrows(h) == FALSE

OnVectorizeSetsStatus(s) == [s EXCEPT !.statusText = "Vectorizing"]

\* void OnVectorize(wxCommandEvent&) { }  -- the dialog after the body ran
OnVectorize(s) == s

OnZoomCloses(s) == [s EXCEPT !.life = "closed"]

\* void OnZoom(wxCommandEvent&) { }  -- the dialog after the body ran
OnZoom(s) == s

HandlerBody(h, s) == IF h = "OnVectorize" THEN OnVectorize(s) ELSE OnZoom(s)

\* wxEVT_BUTTON is handed to the most recently bound handler of the button;
\* neither handler calls event.Skip(), so no further handler is tried.
Dispatched(d, b) ==
    LET hs == dlg[d].bind[b]
    IN  IF hs = <<>> THEN <<>> ELSE <<hs[Len(hs)]>>

\* the event loop may deliver a click when no handler is running, or when
\* the innermost running handler has re-entered the event loop
CanDispatch ==
    /\ ~CtorRunning
    /\ \/ stack = <<>>
       \/ /\ stack # <<>>
          /\ HandlerYields(stack[Len(stack)].h)

\* a click on button b of dialog d, delivered synchronously to its handler
Click(d, b) ==
    /\ CanDispatch
    /\ dlg[d].life = "open"
    /\ dlg[d].visible
    /\ Live(d, b)
    /\ Len(issued) < MaxClicks
    /\ clicks' = [clicks EXCEPT ![d][b] = @ + 1]
    /\ issued' = Append(issued, <<d, b>>)
    /\ LET hs == Dispatched(d, b)
       IN  IF hs = <<>>
           THEN /\ completed' = Append(completed, <<d, b>>)
                /\ UNCHANGED <<calls, stack>>
           ELSE /\ calls' = [calls EXCEPT ![d][hs[1]] = @ + 1]
                /\ stack' = Append(stack, [d |-> d, b |-> b, h |-> hs[1]])
                /\ UNCHANGED completed
    /\ UNCHANGED <<dlg, widgets, exc>>

\* the innermost running handler executes its body and returns
HandlerReturn ==
    /\ stack # <<>>
    /\ LET f == stack[Len(stack)]
       IN  /\ dlg' = [dlg EXCEPT ![f.d] = HandlerBody(f.h, @)]
           /\ completed' = Append(completed, <<f.d, f.b>>)
           /\ exc' = IF HandlerThrows(f.h) THEN exc + 1 ELSE exc
    /\ stack' = SubSeq(stack, 1, Len(stack) - 1)
    /\ UNCHANGED <<widgets, clicks, calls, issued>>

\* is window w (transitively) a child of its dialog?
RECURSIVE Attached(_, _, _)
Attached(ws, w, fuel) ==
    \/ w.parent = "this"
    \/ /\ fuel > 0
       /\ \E p \in ws : /\ p.owner = w.owner
                        /\ p.name = w.parent
                        /\ Attached(ws, p, fuel - 1)

Children(d) ==
    {w \in widgets : w.owner = d /\ Attached(widgets, w, Cardinality(widgets))}

\* the implicit destructor: wxWindow destroys the dialog's child windows
\* and deletes the sizer it owns
Destroy(d) ==
    /\ dlg[d].life = "open"
    /\ ~CtorRunning /\ stack = <<>>
    /\ widgets' = widgets \ Children(d)
    /\ dlg' = [dlg EXCEPT ![d].life = "closed", ![d].visible = FALSE,
                 ![d].bind = [b \in Buttons |-> <<>>],
                 ![d].toolbar = IF \E w \in Children(d) : w.name = "toolbar"
                                THEN <<>> ELSE @,
                 ![d].mainSizer.alive = IF dlg[d].sizer = "mainSizer" THEN FALSE ELSE @]
    /\ UNCHANGED Rest

CtorStep(d) ==
    \/ NewMainSizer(d)
    \/ NewScrolledWindow(d)
    \/ SetScrollRate(d)
    \/ CreateToolBar(d)
    \/ NewVectorizeBtn(d)
    \/ NewZoomBtn(d)
    \/ AddVectorizeBtn(d)
    \/ AddZoomBtn(d)
    \/ Realize(d)
    \/ CreateStatusBar(d)
    \/ BindVectorize(d)
    \/ BindZoom(d)
    \/ SetSizer(d)
    \/ SetMinSize(d)

Next ==
    \/ \E d \in Dialogs : Construct(d)
    \/ \E d \in Dialogs : CtorStep(d)
    \/ \E d \in Dialogs : Show(d)
    \/ \E d \in Dialogs, b \in Buttons : Click(d, b)
    \/ HandlerReturn
    \/ \E d \in Dialogs : Destroy(d)

Spec == Init /\ [][Next]_vars

\* ------------------------------------------------------------- properties
Owned == {"m_scrolledWindow", "m_vectorizeBtn", "m_zoomBtn", "m_statusBar"}

IsOpen(d) == dlg[d].life = "open"

ClicksOn(b) == {i \in 1..Len(completed) : completed[i][2] = b}

BothHandlersCompleted ==
    ClicksOn("m_vectorizeBtn") # {} /\ ClicksOn("m_zoomBtn") # {}

LabelOf(d, n) == (CHOOSE w \in widgets : w.owner = d /\ w.name = n).label

ToolbarLabels(d) ==
    [i \in 1..Len(dlg[d].toolbar) |-> LabelOf(d, dlg[d].toolbar[i])]

\* C1: every click on "Vectorize" runs OnVectorize exactly once and OnZoom
\* not at all, every click on "Zoom" runs OnZoom exactly once and
\* OnVectorize not at all: in every state the number of invocations of each
\* handler equals the number of clicks on its button, and no invocation
\* ended in an exception.
C1_OneHandlerCallPerClick ==
    /\ \A d \in Dialogs :
          /\ calls[d]["OnVectorize"] = clicks[d]["m_vectorizeBtn"]
          /\ calls[d]["OnZoom"] = clicks[d]["m_zoomBtn"]
    /\ exc = 0

C1_Witness ==
    \E d \in Dialogs :
        /\ clicks[d]["m_vectorizeBtn"] >= 1
        /\ clicks[d]["m_zoomBtn"] >= 1
        /\ stack = <<>>

\* C2: while a dialog is open its toolbar holds exactly two controls,
\* labelled "Vectorize" and "Zoom" in that order, whatever clicks or other
\* operations have happened.
C2_ToolbarVectorizeThenZoom ==
    \A d \in Dialogs :
        IsOpen(d) =>
            /\ Live(d, "toolbar")
            /\ Len(dlg[d].toolbar) = 2
            /\ \A i \in 1..Len(dlg[d].toolbar) : Live(d, dlg[d].toolbar[i])
            /\ ToolbarLabels(d) = <<"Vectorize", "Zoom">>

C2_Witness ==
    \E d \in Dialogs :
        /\ IsOpen(d)
        /\ calls[d]["OnVectorize"] >= 1
        /\ calls[d]["OnZoom"] >= 1
        /\ Len(dlg[d].toolbar) = 2

\* C3: an open dialog reports a minimum size of at least 800 wide and 600
\* high, also after any sequence of Vectorize and Zoom clicks.
C3_MinSizeAtLeast800x600 ==
    \A d \in Dialogs :
        IsOpen(d) => dlg[d].minSize[1] >= 800 /\ dlg[d].minSize[2] >= 600

C3_Witness ==
    \E d \in Dialogs :
        /\ IsOpen(d)
        /\ dlg[d].minSize # DefaultSize
        /\ clicks[d]["m_vectorizeBtn"] + clicks[d]["m_zoomBtn"] >= 2
        /\ stack = <<>>

\* C4: the four owned widgets are alive in every state in which their
\* dialog is open, and no widget created by a dialog is alive when that
\* dialog is closed (or not yet constructed); so once every dialog has been
\* destroyed no widget is left.
C4_WidgetsLiveExactlyWhileOpen ==
    /\ \A d \in Dialogs :
          /\ IsOpen(d) => \A n \in Owned : Live(d, n)
          /\ dlg[d].life \in {"closed", "unborn"} =>
                ~ \E w \in widgets : w.owner = d
    /\ (\A d \in Dialogs : ~IsOpen(d)) /\ ~CtorRunning => widgets = {}

C4_Witness ==
    /\ \A d \in Dialogs : dlg[d].life = "closed"
    /\ widgets = {}

\* C5: whenever a dialog is visible, its Vectorize button is bound to
\* OnVectorize, its Zoom button to OnZoom, its sizer is set and its minimum
\* size is set; every handler frame in execution belongs to a button with a
\* bound handler.
C5_ConfiguredBeforeVisible ==
    /\ \A d \in Dialogs :
          dlg[d].visible =>
              /\ dlg[d].bind["m_vectorizeBtn"] = <<"OnVectorize">>
              /\ dlg[d].bind["m_zoomBtn"] = <<"OnZoom">>
              /\ dlg[d].sizer = "mainSizer"
              /\ dlg[d].minSize = <<800, 600>>
    /\ \A i \in 1..Len(stack) : dlg[stack[i].d].bind[stack[i].b] # <<>>

C5_Witness ==
    \E d \in Dialogs :
        /\ dlg[d].visible
        /\ stack # <<>>
        /\ stack[1].d = d

Observable(s) ==
    <<s.statusText, s.scrollRate, s.toolbar, s.title, s.minSize, s.bind, s.life>>

HandlerStep == clicks' # clicks \/ completed' # completed

\* C6: a step in which a click is dispatched or a handler runs changes
\* neither the status text, the scroll rate, the toolbar, the title, the
\* minimum size, the bindings or the lifecycle state of any dialog, nor the
\* set of live widgets.
C6_ClicksChangeNothing ==
    [][HandlerStep =>
          /\ \A d \in Dialogs : Observable(dlg'[d]) = Observable(dlg[d])
          /\ widgets' = widgets]_vars

C6_Witness ==
    /\ BothHandlersCompleted
    /\ \E d \in Dialogs : IsOpen(d) /\ dlg[d].statusText = ""

\* C8: at most one handler is executing at any time, a handler has returned
\* before the next click is dispatched, and handlers complete in the order
\* in which the clicks were issued.
C8_OneHandlerAtATimeInOrder ==
    /\ Len(stack) <= 1
    /\ Len(completed) <= Len(issued)
    /\ completed = SubSeq(issued, 1, Len(completed))
    /\ Len(issued) = Len(completed) + Len(stack)

C8_Witness ==
    /\ Len(completed) >= 2
    /\ completed[1] # completed[2]
    /\ stack # <<>>

\* C9: a constructed dialog is open or closed and nothing else; the
\* constructor leaves it open; no click or handler changes the lifecycle
\* state; a closed dialog stays closed and none of its handlers is invoked.
C9_OpenThenClosedForever ==
    [][\A d \in Dialogs :
          /\ dlg'[d].pc = "done" => dlg'[d].life \in {"open", "closed"}
          /\ (dlg[d].pc # "done" /\ dlg'[d].pc = "done") => dlg'[d].life = "open"
          /\ HandlerStep => dlg'[d].life = dlg[d].life
          /\ dlg[d].life = "closed" =>
                /\ dlg'[d].life = "closed"
                /\ calls'[d] = calls[d]
                /\ clicks'[d] = clicks[d]]_vars

C9_Witness ==
    \E d, e \in Dialogs :
        /\ dlg[d].life = "closed"
        /\ calls[d]["OnZoom"] >= 1
        /\ IsOpen(e)
        /\ calls[e]["OnZoom"] >= 1

\* C10: after construction the scrolled window (scroll rate 5, 5) is an item
\* of the main sizer that the constructor installed with SetSizer.
C10_ScrolledWindowInSizer ==
    \A d \in Dialogs :
        IsOpen(d) =>
            /\ dlg[d].scrollRate = <<5, 5>>
            /\ dlg[d].sizer = "mainSizer"
            /\ \E i \in 1..Len(dlg[d].mainSizer.items) :
                  dlg[d].mainSizer.items[i] = "m_scrolledWindow"
====
